---------------------------- MODULE Spec2Model ----------------------------
(***************************************************************************)
(* ConflictZero: trajectory reconstruction, sector congestion detection    *)
(* (airspace_congestion.py) and loss-of-separation detection               *)
(* (flight_analysis.py).                                                   *)
(*                                                                         *)
(* Numbers.  The source computes in floating point.  Here a coordinate is  *)
(* a pair <<lat, lon>> of integers counting 1/UnitsPerDeg of a degree, and *)
(* a distance counts 1/UnitsPerNm of a nautical mile (one minute of arc is *)
(* one nautical mile, so UnitsPerDeg = 60 * UnitsPerNm).  The great-circle *)
(* distance is replaced by the distance on the flat chart, rounded down to *)
(* a whole unit; durations and fractions are kept as exact quotients of    *)
(* integers and rounded where the source rounds (int(), //, floor).        *)
(***************************************************************************)
EXTENDS Integers, Sequences, FiniteSets, TLC

VARIABLES
    flights,              \* the flight list handed to the detector
    pc,                   \* position in the running function
    run,                  \* 1: first call, 2: second call on the list
    first,                \* what the first call returned
    perm,                 \* how the second call's list was reordered (0: not)
    k,                    \* index of the `for f in flights` loop
    flight_trajectories,  \* dict ACID -> trajectory, in insertion order
    flight_objects,       \* dict ACID -> Flight
    position_by_time,     \* dict t -> list of (acid, pos)
    sorted_times,         \* sorted(position_by_time.keys())
    ti, i, j,             \* indices of the three nested scan loops
    active_conflicts,     \* set of pair keys already reported
    conflicts,            \* the ConflictRecord list being built
    status,               \* "running", "returned" or "raised"
    samples,              \* estimate_trajectory(flight) of the current flight
    si,                   \* index of the `for sample in samples` loop
    sector_window_flights,\* dict (sector, window) -> set of ACIDs, insertion order
    hotspots,             \* the Hotspot list returned by detect_congestion
    trajectory,           \* result of generate_4d_trajectory (reconstructor runs)
    fa_path,              \* generate_4d_trajectory's path argument
    seg_i,                \* index i of the reconstructors' segment loop
    step_s,               \* index of their inner loop (s, j)
    seg_steps,            \* steps / num_samples of the current segment
    flown_units,          \* length of the path before the current segment:
                          \* current_time = departure_time + its flying time
    ac_time,              \* estimate_trajectory's current_time
    generated,            \* the samples made so far, in the order made
    interp_p1,            \* interpolate_position's p1
    interp_p2,            \* interpolate_position's p2
    interp_fraction,      \* interpolate_position's fraction, <<numerator, denominator>>
    interp_pos,           \* interpolate_position's result
    parts,                \* the route string's whitespace-separated tokens
    pidx,                 \* index of the `for part in parts` loop
    coordinates,          \* flight_analysis.parse_route's result list
    waypoints             \* airspace_congestion.parse_route's result list

vars == <<flights, pc, run, first, perm, k, flight_trajectories, flight_objects,
          position_by_time, sorted_times, ti, i, j, active_conflicts, conflicts,
          status, samples, si, sector_window_flights, hotspots, trajectory,
          fa_path, seg_i, step_s, seg_steps, flown_units, ac_time, generated,
          interp_p1, interp_p2, interp_fraction, interp_pos,
          parts, pidx, coordinates, waypoints>>

---------------------------------------------------------------------------
(* Units of the integer chart *)

UnitsPerNm == 5
UnitsPerDeg == 300

(* Python's None in a numeric field *)
None == -1

---------------------------------------------------------------------------
(* Sequence and dict helpers *)

Range(s) == {s[n] : n \in DOMAIN s}

Max2(a, b) == IF a >= b THEN a ELSE b

Abs(a) == IF a >= 0 THEN a ELSE -a

(* d[key] = v on a dict held as a function *)
Put(d, key, v) == [x \in (DOMAIN d) \cup {key} |-> IF x = key THEN v ELSE d[x]]

EmptyDict == <<>>

(* floor of the square root, by bisection of lo..hi *)
RECURSIVE IsqrtIn(_, _, _)
IsqrtIn(n, lo, hi) ==
    IF lo >= hi THEN lo
    ELSE LET mid == (lo + hi + 1) \div 2
         IN  IF mid * mid <= n THEN IsqrtIn(n, mid, hi) ELSE IsqrtIn(n, lo, mid - 1)

Isqrt(n) == IsqrtIn(n, 0, IF n < 46340 THEN n ELSE 46340)

---------------------------------------------------------------------------
(* Geodesic primitives *)

(* flight_analysis.horizontal_distance_nm / airspace_congestion.haversine_distance,
   in distance units on the chart *)
horizontal_distance_nm(coord1, coord2) ==
    Isqrt((coord2[1] - coord1[1]) * (coord2[1] - coord1[1])
          + (coord2[2] - coord1[2]) * (coord2[2] - coord1[2]))

haversine_distance(lat1, lon1, lat2, lon2) ==
    Isqrt((lat2 - lat1) * (lat2 - lat1) + (lon2 - lon1) * (lon2 - lon1))

(* interpolate_position with fraction = num / den, den > 0; each component is
   rounded down to the chart's grid *)
interpolate_position(start, end, num, den) ==
    << start[1] + ((end[1] - start[1]) * num) \div den,
       start[2] + ((end[2] - start[2]) * num) \div den >>

---------------------------------------------------------------------------
(* Route parsing.  A token `part` is a record
     [has_slash, lat_ok, lat_val, lat_suf, lon_ok, lon_val, lon_suf]:
   whether it holds a '/', and for each side whether float(c_str[:-1])
   succeeds, its value (chart units) and the last character c_str[-1]. *)

Upper(c) ==
    CASE c = "n" -> "N"
      [] c = "s" -> "S"
      [] c = "e" -> "E"
      [] c = "w" -> "W"
      [] OTHER -> c

(* flight_analysis.parse_route.parse_coord: the value, negated for S or W *)
parse_coord(val, suf) == IF Upper(suf) \in {"S", "W"} THEN -val ELSE val

(* one iteration of flight_analysis.parse_route's loop: the list after `part` *)
fa_parse_part(acc, part) ==
    IF ~part.has_slash THEN acc
    ELSE IF ~part.lat_ok \/ ~part.lon_ok THEN acc
    ELSE Append(acc, << parse_coord(part.lat_val, part.lat_suf),
                        parse_coord(part.lon_val, part.lon_suf) >>)

(* one iteration of airspace_congestion.parse_route's loop *)
ac_parse_part(acc, part) ==
    IF ~part.has_slash THEN acc
    ELSE IF ~part.lat_ok \/ ~part.lon_ok THEN acc
    ELSE Append(acc,
           << IF Upper(part.lat_suf) = "S" THEN -part.lat_val ELSE part.lat_val,
              IF Upper(part.lon_suf) = "W" THEN -part.lon_val ELSE part.lon_val >>)

RECURSIVE fa_parse_from(_, _, _)
fa_parse_from(route, n, acc) ==
    IF n > Len(route) THEN acc
    ELSE fa_parse_from(route, n + 1, fa_parse_part(acc, route[n]))

RECURSIVE ac_parse_from(_, _, _)
ac_parse_from(route, n, acc) ==
    IF n > Len(route) THEN acc
    ELSE ac_parse_from(route, n + 1, ac_parse_part(acc, route[n]))

(* flight_analysis.parse_route and airspace_congestion.parse_route *)
fa_parse_route(route) == fa_parse_from(route, 1, <<>>)

ac_parse_route(route) == ac_parse_from(route, 1, <<>>)

---------------------------------------------------------------------------
(* Path resolver *)

(* AIRPORT_LOCATIONS, degrees * UnitsPerDeg *)
AIRPORT_LOCATIONS ==
    [ CYYZ |-> <<13104, -23889>>, CYVR |-> <<14757, -36954>>,
      CYUL |-> <<13641, -22122>>, CYYC |-> <<15333, -34206>>,
      CYOW |-> <<13596, -22701>>, CYWG |-> <<14973, -29172>>,
      CYHZ |-> <<13464, -19053>>, CYEG |-> <<15993, -34074>>,
      CYQB |-> <<14037, -21417>>, CYYJ |-> <<14595, -37029>>,
      CYYT |-> <<14286, -15825>>, CYXE |-> <<15651, -32010>> ]

get_full_flight_path(flight) ==
    (IF flight.departure_airport \in DOMAIN AIRPORT_LOCATIONS
        THEN << AIRPORT_LOCATIONS[flight.departure_airport] >> ELSE <<>>)
    \o fa_parse_route(flight.route)
    \o (IF flight.arrival_airport \in DOMAIN AIRPORT_LOCATIONS
        THEN << AIRPORT_LOCATIONS[flight.arrival_airport] >> ELSE <<>>)


---------------------------------------------------------------------------
(* Trajectory reconstructor of flight_analysis.py *)

TIME_STEP_SEC == 60

SEC_PER_HOUR == 3600

(* whether Python's `not x` holds of a numeric field: None or 0 *)
Falsy(x) == x = None \/ x = 0

(* a variant of line 186 that keeps the position a key already has *)
store_position_if_absent(traj, t_minute, pos) ==
    IF t_minute \in DOMAIN traj THEN traj ELSE Put(traj, t_minute, pos)

(* line 186: trajectory[t_minute] = pos *)
store_position(traj, t_minute, pos) == Put(traj, t_minute, pos)

(* the inner `for s in range(steps + 1)` loop from step s on: a segment p1 -> p2 of
   length dist_units flown at `speed` knots, starting elapsed_units of distance
   after departure.  duration_sec = dist_units * 3600 / (speed * UnitsPerNm). *)
RECURSIVE fa_segment_steps(_, _, _, _, _, _, _, _, _)
fa_segment_steps(traj, p1, p2, dist_units, steps, s, departure_time, speed, elapsed_units) ==
    IF s > steps THEN traj
    ELSE
      LET num == s * TIME_STEP_SEC * speed * UnitsPerNm
          den == dist_units * SEC_PER_HOUR
          pos == IF num > den THEN interpolate_position(p1, p2, 1, 1)
                              ELSE interpolate_position(p1, p2, num, den)
          t_stamp == departure_time
                     + (elapsed_units * SEC_PER_HOUR) \div (speed * UnitsPerNm)
                     + s * TIME_STEP_SEC
          t_minute == (t_stamp \div 60) * 60
      IN fa_segment_steps(store_position(traj, t_minute, pos), p1, p2, dist_units, steps, s + 1,
                          departure_time, speed, elapsed_units)

(* number of steps of a segment: int(duration_sec / time_step_sec) *)
fa_steps(dist_units, speed) ==
    (dist_units * SEC_PER_HOUR) \div (speed * UnitsPerNm * TIME_STEP_SEC)

(* the `for i in range(len(path) - 1)` loop from segment n on *)
RECURSIVE fa_segments(_, _, _, _, _, _)
fa_segments(traj, path, n, departure_time, speed, elapsed_units) ==
    IF n > Len(path) - 1 THEN traj
    ELSE
      LET dist_units == horizontal_distance_nm(path[n], path[n + 1])
      IN IF dist_units = 0
           THEN fa_segments(traj, path, n + 1, departure_time, speed, elapsed_units)
           ELSE fa_segments(
                  fa_segment_steps(traj, path[n], path[n + 1], dist_units,
                                   fa_steps(dist_units, speed), 0,
                                   departure_time, speed, elapsed_units),
                  path, n + 1, departure_time, speed, elapsed_units + dist_units)

(* a variant of generate_4d_trajectory without line 152's test of the
   departure time *)
generate_4d_trajectory_any_departure(flight, path) ==
    IF Falsy(flight.aircraft_speed) \/ flight.aircraft_speed <= 0
      THEN EmptyDict
    ELSE IF path = <<>> THEN EmptyDict
    ELSE fa_segments(EmptyDict, path, 1, flight.departure_time,
                     flight.aircraft_speed, 0)

(* generate_4d_trajectory: dict t_minute -> (lat, lon) *)
generate_4d_trajectory(flight, path) ==
    IF Falsy(flight.departure_time) \/ Falsy(flight.aircraft_speed)
       \/ flight.aircraft_speed <= 0
      THEN EmptyDict
    ELSE IF path = <<>> THEN EmptyDict
    ELSE fa_segments(EmptyDict, path, 1, flight.departure_time,
                     flight.aircraft_speed, 0)

---------------------------------------------------------------------------
(* Trajectory reconstructor of airspace_congestion.py *)

SAMPLE_INTERVAL == 90

(* num_samples = max(1, int(time_for_segment / sample_interval)) *)
ac_num_samples(dist_units, speed) ==
    Max2(1, (dist_units * SEC_PER_HOUR) \div (speed * UnitsPerNm * SAMPLE_INTERVAL))

(* the `for j in range(num_samples + 1)` loop from sample jj on *)
RECURSIVE ac_segment_samples(_, _, _, _, _, _, _, _, _)
ac_segment_samples(acc, p1, p2, dist_units, num_samples, jj, current_time, speed, acid) ==
    IF jj > num_samples THEN acc
    ELSE
      LET tn == IF jj > num_samples THEN num_samples ELSE jj
          pos == interpolate_position(p1, p2, tn, num_samples)
          sample_time == current_time
                         + (tn * dist_units * SEC_PER_HOUR)
                           \div (num_samples * speed * UnitsPerNm)
      IN ac_segment_samples(
           Append(acc, [timestamp |-> sample_time, latitude |-> pos[1],
                        longitude |-> pos[2], acid |-> acid]),
           p1, p2, dist_units, num_samples, jj + 1, current_time, speed, acid)

(* the `for i in range(len(waypoints) - 1)` loop from segment n on *)
RECURSIVE ac_segments(_, _, _, _, _, _)
ac_segments(acc, wps, n, current_time, speed, acid) ==
    IF n > Len(wps) - 1 THEN acc
    ELSE
      LET dist_units == haversine_distance(wps[n][1], wps[n][2],
                                           wps[n + 1][1], wps[n + 1][2])
          seg_time == (dist_units * SEC_PER_HOUR) \div (speed * UnitsPerNm)
      IN IF dist_units <= 0
           THEN ac_segments(acc, wps, n + 1, current_time, speed, acid)
           ELSE ac_segments(
                  ac_segment_samples(acc, wps[n], wps[n + 1], dist_units,
                                     ac_num_samples(dist_units, speed), 0,
                                     current_time, speed, acid),
                  wps, n + 1, current_time + seg_time, speed, acid)

(* estimate_trajectory: list of PositionSample *)
estimate_trajectory(flight) ==
    LET wps == ac_parse_route(flight.route)
    IN IF Len(wps) < 2 THEN <<>>
       ELSE IF flight.aircraft_speed <= 0 THEN <<>>
       ELSE ac_segments(<<>>, wps, 1, flight.departure_time,
                        flight.aircraft_speed, flight.acid)

---------------------------------------------------------------------------
(* Spatial-temporal bucketing *)

WINDOW_SEC == 900

get_sector(lat, lon) == << lat \div UnitsPerDeg, lon \div UnitsPerDeg >>

get_time_window(timestamp) == (timestamp \div WINDOW_SEC) * WINDOW_SEC

---------------------------------------------------------------------------
(* detect_loss_of_separation (flight_analysis.py) *)

HORIZ_SEP_NM == 5

VERT_SEP_FT == 2000

(* a variant of d[key] = v that adds an item even when the key is there *)
OrderedPutAppending(d, key, v) == Append(d, [key |-> key, val |-> v])

(* d[key] = v on a dict held in insertion order as a sequence of [key, val] *)
RECURSIVE OrderedPut(_, _, _)
OrderedPut(d, key, v) ==
    IF d = <<>> THEN << [key |-> key, val |-> v] >>
    ELSE IF Head(d).key = key THEN << [key |-> key, val |-> v] >> \o Tail(d)
    ELSE << Head(d) >> \o OrderedPut(Tail(d), key, v)

Keys(d) == {d[n].key : n \in DOMAIN d}

Lookup(d, key) == (CHOOSE e \in Range(d) : e.key = key).val

(* a variant of sorted() that puts the largest first *)
RECURSIVE SortedSeqDescending(_)
SortedSeqDescending(S) ==
    IF S = {} THEN <<>>
    ELSE LET m == CHOOSE x \in S : \A y \in S : x >= y
         IN << m >> \o SortedSeqDescending(S \ {m})

(* sorted(set of integers) *)
RECURSIVE SortedSeq(_)
SortedSeq(S) ==
    IF S = {} THEN <<>>
    ELSE LET m == CHOOSE x \in S : \A y \in S : x <= y
         IN << m >> \o SortedSeq(S \ {m})

(* lines 222-227: the inverted index after the trajectories from item n on *)
RECURSIVE invert_from(_, _, _)
invert_from(index, trajs, n) ==
    IF n > Len(trajs) THEN index
    ELSE
      LET acid == trajs[n].key
          traj == trajs[n].val
      IN invert_from(
           [t \in (DOMAIN index) \cup (DOMAIN traj) |->
               IF t \in DOMAIN traj
                 THEN Append(IF t \in DOMAIN index THEN index[t] ELSE <<>>,
                             << acid, traj[t] >>)
                 ELSE index[t]],
           trajs, n + 1)

(* a variant of line 233 that goes on with the set as the last call left it *)
new_active_conflicts_kept == active_conflicts

(* line 233: active_conflicts = set() *)
new_active_conflicts == {}

(* line 267: active_conflicts.add(pair_key) *)
mark_active(active, key) == active \cup {key}

(* a variant of lines 268-272 that takes a pair found separated out of the
   active set *)
after_separation_removed(active, key) == active \ {key}

(* lines 268-272: a pair found separated stays in the active set (`pass`) *)
after_separation(active, key) == active

(* line 256: tuple(sorted((acid1, acid2))) *)
pair_key(acid1, acid2) ==
    IF acid1 <= acid2 THEN << acid1, acid2 >> ELSE << acid2, acid1 >>

(* a variant of the vertical short-circuit with > in place of >= *)
vertically_separated_gt(alt1, alt2) ==
    alt1 # None /\ alt2 # None /\ Abs(alt1 - alt2) > VERT_SEP_FT

(* lines 248-249: the vertical short-circuit *)
vertically_separated(alt1, alt2) ==
    alt1 # None /\ alt2 # None /\ Abs(alt1 - alt2) >= VERT_SEP_FT

(* line 255 *)
horizontally_close(pos1, pos2) ==
    horizontal_distance_nm(pos1, pos2) < HORIZ_SEP_NM * UnitsPerNm

(* the loop position (ti, i, j) moved on to the next pair the three nested
   `for` loops of lines 235-243 visit, or to ti > len(sorted_times) *)
RECURSIVE NormPos(_, _, _, _, _)
NormPos(index, times, t, a, b) ==
    IF t > Len(times) THEN << t, 1, 2 >>
    ELSE LET n == Len(index[times[t]])
         IN IF a > n THEN NormPos(index, times, t + 1, 1, 2)
            ELSE IF b > n THEN NormPos(index, times, t, a + 1, a + 2)
            ELSE << t, a, b >>

CurT == sorted_times[ti]
aircraft_at_t == position_by_time[CurT]
acid1 == aircraft_at_t[i][1]
pos1 == aircraft_at_t[i][2]
acid2 == aircraft_at_t[j][1]
pos2 == aircraft_at_t[j][2]
flight1 == flight_objects[acid1]
flight2 == flight_objects[acid2]

CongUnchanged == UNCHANGED <<samples, si, sector_window_flights, hotspots>>
InterpUnchanged == UNCHANGED <<interp_p1, interp_p2, interp_fraction, interp_pos>>
BuildUnchanged ==
    /\ UNCHANGED <<fa_path, seg_i, step_s, seg_steps, flown_units, ac_time, generated>>
    /\ InterpUnchanged
TrajUnchanged == UNCHANGED trajectory /\ BuildUnchanged
ParseUnchanged == UNCHANGED <<parts, pidx, coordinates, waypoints>>

(* lines 204-211: one iteration of the preprocessing loop *)
LoadFlight ==
    /\ pc = "load"
    /\ k <= Len(flights)
    /\ LET f == flights[k]
           path == get_full_flight_path(f)
           traj == generate_4d_trajectory(f, path)
       IN /\ flight_objects' = Put(flight_objects, f.acid, f)
          /\ flight_trajectories' =
               IF path # <<>> /\ traj # EmptyDict
                 THEN OrderedPut(flight_trajectories, f.acid, traj)
                 ELSE flight_trajectories
    /\ k' = k + 1
    /\ UNCHANGED <<flights, pc, run, first, perm, position_by_time, sorted_times,
                   ti, i, j, active_conflicts, conflicts, status>>
    /\ CongUnchanged /\ TrajUnchanged /\ ParseUnchanged

(* lines 214-233: the inverted index, the sorted times, the empty active set *)
BuildIndex ==
    /\ pc = "load"
    /\ k > Len(flights)
    /\ LET index == invert_from(EmptyDict, flight_trajectories, 1)
           times == SortedSeq(DOMAIN index)
           pos == NormPos(index, times, 1, 1, 2)
       IN /\ position_by_time' = index
          /\ sorted_times' = times
          /\ ti' = pos[1] /\ i' = pos[2] /\ j' = pos[3]
    /\ active_conflicts' = new_active_conflicts
    /\ pc' = "scan"
    /\ UNCHANGED <<flights, run, first, perm, k, flight_trajectories, flight_objects,
                   conflicts, status>>
    /\ CongUnchanged /\ TrajUnchanged /\ ParseUnchanged

NextPair ==
    LET pos == NormPos(position_by_time, sorted_times, ti, i, j + 1)
    IN ti' = pos[1] /\ i' = pos[2] /\ j' = pos[3]

ScanFrame ==
    /\ UNCHANGED <<flights, run, first, perm, k, flight_trajectories, flight_objects,
                   position_by_time, sorted_times>>
    /\ CongUnchanged /\ TrajUnchanged /\ ParseUnchanged

(* lines 248-250: the pair is vertically separated, `continue` *)
SkipVertical ==
    /\ pc = "scan" /\ ti <= Len(sorted_times)
    /\ vertically_separated(flight1.altitude, flight2.altitude)
    /\ NextPair
    /\ UNCHANGED <<pc, active_conflicts, conflicts, status>>
    /\ ScanFrame

(* lines 253-257, 268-272: not close, or the pair is already in active_conflicts *)
NoReport ==
    /\ pc = "scan" /\ ti <= Len(sorted_times)
    /\ ~vertically_separated(flight1.altitude, flight2.altitude)
    /\ \/ ~horizontally_close(pos1, pos2)
       \/ pair_key(acid1, acid2) \in active_conflicts
    /\ active_conflicts' =
         IF horizontally_close(pos1, pos2)
           THEN active_conflicts
           ELSE after_separation(active_conflicts, pair_key(acid1, acid2))
    /\ NextPair
    /\ UNCHANGED <<pc, conflicts, status>>
    /\ ScanFrame

(* lines 255-267: a new conflict is appended and the pair marked active *)
ReportConflict ==
    /\ pc = "scan" /\ ti <= Len(sorted_times)
    /\ ~vertically_separated(flight1.altitude, flight2.altitude)
    /\ horizontally_close(pos1, pos2)
    /\ pair_key(acid1, acid2) \notin active_conflicts
    /\ flight1.altitude # None /\ flight2.altitude # None
    /\ conflicts' = Append(conflicts,
         [ flight1 |-> acid1, flight2 |-> acid2,
           horizontal_nm |-> horizontal_distance_nm(pos1, pos2),
           vertical_ft |-> Abs(flight1.altitude - flight2.altitude),
           start_time_overlap |-> CurT \div 60 ])
    /\ active_conflicts' = mark_active(active_conflicts, pair_key(acid1, acid2))
    /\ NextPair
    /\ UNCHANGED <<pc, status>>
    /\ ScanFrame

(* line 263: abs(flight1.altitude - flight2.altitude) with an altitude of None
   raises TypeError, which leaves detect_loss_of_separation *)
RaiseTypeError ==
    /\ pc = "scan" /\ ti <= Len(sorted_times)
    /\ ~vertically_separated(flight1.altitude, flight2.altitude)
    /\ horizontally_close(pos1, pos2)
    /\ pair_key(acid1, acid2) \notin active_conflicts
    /\ flight1.altitude = None \/ flight2.altitude = None
    /\ status' = "raised"
    /\ pc' = "los_done"
    /\ UNCHANGED <<ti, i, j, active_conflicts, conflicts>>
    /\ ScanFrame

(* line 274: return conflicts *)
ReturnConflicts ==
    /\ pc = "scan" /\ ti > Len(sorted_times)
    /\ status' = "returned"
    /\ pc' = "los_done"
    /\ UNCHANGED <<ti, i, j, active_conflicts, conflicts>>
    /\ ScanFrame

(* what a call hands its caller: the list, or the exception *)
los_result == [status |-> status,
               conflicts |-> IF status = "returned" THEN conflicts ELSE <<>>]

(* a second call of detect_loss_of_separation on the same list: lines 197-201
   make its locals anew *)
CallLosAgain ==
    /\ pc = "los_done" /\ run = 1
    /\ first' = los_result
    /\ run' = 2
    /\ pc' = "load"
    /\ k' = 1
    /\ conflicts' = <<>>
    /\ flight_trajectories' = <<>>
    /\ flight_objects' = EmptyDict
    /\ position_by_time' = EmptyDict
    /\ sorted_times' = <<>>
    /\ ti' = 1 /\ i' = 1 /\ j' = 2
    /\ status' = "running"
    /\ UNCHANGED <<flights, perm, active_conflicts>>
    /\ CongUnchanged /\ TrajUnchanged /\ ParseUnchanged

NextLos ==
    \/ LoadFlight
    \/ BuildIndex
    \/ SkipVertical
    \/ NoReport
    \/ ReportConflict
    \/ RaiseTypeError
    \/ ReturnConflicts
    \/ CallLosAgain

---------------------------------------------------------------------------
(* Inputs of the loss-of-separation runs *)

MaxLosFlights == 3

(* a well-formed route token "<lat><N|S>/<lon><E|W>" *)
Tok(lat_val, lat_suf, lon_val, lon_suf) ==
    [has_slash |-> TRUE, lat_ok |-> TRUE, lat_val |-> lat_val, lat_suf |-> lat_suf,
     lon_ok |-> TRUE, lon_val |-> lon_val, lon_suf |-> lon_suf]

(* Flight plans around Toronto (CYYZ, 43.68N 79.63W = <<13104, -23889>>):
   "slow"     leaves CYYZ eastwards at 60 kt (5 units a minute) for 3 minutes;
   "offset"   flies the same course 25 units (exactly 5.0 nm) further north;
   "shuttle"  flies at 600 kt from CYYZ 50 units north and back, twice, so it
              is over CYYZ every other minute;
   "grounded" is "slow" with speed 0;
   "early"    leaves CYYZ at 60 with the shuttle and is 50 units east of it a
              minute later, where its path ends. *)
LosPlans ==
    [ slow |->
        [route |-> << Tok(13104, "N", 23874, "W") >>,
         departure_airport |-> "CYYZ", arrival_airport |-> "Unknown",
         departure_time |-> 120, aircraft_speed |-> 60],
      offset |->
        [route |-> << Tok(13129, "N", 23889, "W"), Tok(13129, "n", 23874, "w") >>,
         departure_airport |-> "Unknown", arrival_airport |-> "Unknown",
         departure_time |-> 120, aircraft_speed |-> 60],
      shuttle |->
        [route |-> << Tok(13154, "N", 23889, "W"), Tok(13104, "N", 23889, "W"),
                      Tok(13154, "N", 23889, "W") >>,
         departure_airport |-> "CYYZ", arrival_airport |-> "CYYZ",
         departure_time |-> 60, aircraft_speed |-> 600],
      grounded |->
        [route |-> << Tok(13104, "N", 23874, "W") >>,
         departure_airport |-> "CYYZ", arrival_airport |-> "Unknown",
         departure_time |-> 120, aircraft_speed |-> 0],
      early |->
        [route |-> << Tok(13104, "N", 23839, "W") >>,
         departure_airport |-> "CYYZ", arrival_airport |-> "Unknown",
         departure_time |-> 60, aircraft_speed |-> 600] ]

(* what a flight of the list may be: a plan and an altitude, which is missing,
   30000 ft or 32000 ft *)
LosProfiles ==
    { << "slow", None >>, << "slow", 30000 >>, << "slow", 32000 >>,
      << "offset", 30000 >>,
      << "shuttle", 30000 >>, << "shuttle", 32000 >>,
      << "grounded", 30000 >>,
      << "early", 30000 >> }

(* identifier lists: all different, the second flight repeating the first
   one's identifier, the last flight repeating it *)
AcidLists(n) ==
    { [m \in 1..n |-> m],
      [m \in 1..n |-> IF m = 2 THEN 1 ELSE m],
      [m \in 1..n |-> IF m = n THEN 1 ELSE m] }

MakeFlight(acid, altitude, plan) ==
    [acid |-> acid, altitude |-> altitude, route |-> plan.route,
     departure_airport |-> plan.departure_airport,
     arrival_airport |-> plan.arrival_airport,
     departure_time |-> plan.departure_time,
     aircraft_speed |-> plan.aircraft_speed]

LosInputs ==
    {[m \in 1..MaxLosFlights |-> MakeFlight(a[m], pr[m][2], LosPlans[pr[m][1]])] :
        a \in AcidLists(MaxLosFlights),
        pr \in [1..MaxLosFlights -> LosProfiles]}

(* the locals of a detector before its first statement, and the variables of
   the runs that are not under way *)
IdleLos ==
    /\ k = 1
    /\ flight_trajectories = <<>>
    /\ flight_objects = EmptyDict
    /\ position_by_time = EmptyDict
    /\ sorted_times = <<>>
    /\ ti = 1 /\ i = 1 /\ j = 2
    /\ active_conflicts = {}
    /\ conflicts = <<>>
    /\ status = "running"

IdleCong ==
    /\ samples = <<>>
    /\ si = 1
    /\ sector_window_flights = <<>>
    /\ hotspots = <<>>

IdleInterp ==
    /\ interp_p1 = <<0, 0>>
    /\ interp_p2 = <<0, 0>>
    /\ interp_fraction = <<0, 1>>
    /\ interp_pos = <<0, 0>>

IdleBuild ==
    /\ fa_path = <<>>
    /\ seg_i = 1
    /\ step_s = 0
    /\ seg_steps = 0
    /\ flown_units = 0
    /\ ac_time = 0
    /\ generated = <<>>

IdleTraj == trajectory = EmptyDict /\ IdleBuild /\ IdleInterp

IdleParse ==
    /\ parts = <<>>
    /\ pidx = 1
    /\ coordinates = <<>>
    /\ waypoints = <<>>

InitLos ==
    /\ flights \in LosInputs
    /\ pc = "load"
    /\ run = 1
    /\ first = [status |-> "none", conflicts |-> <<>>]
    /\ perm = 0
    /\ IdleLos /\ IdleCong /\ IdleTraj /\ IdleParse

SpecLos == InitLos /\ [][NextLos]_vars

---------------------------------------------------------------------------
(* detect_congestion (airspace_congestion.py) *)

CONGESTION_THRESHOLD == 5

HasKey(d, key) == \E n \in DOMAIN d : d[n].key = key

(* a variant of line 260 that overwrites the bucket's set *)
add_flight_assign(d, key, acid) == OrderedPut(d, key, {acid})

(* line 260: sector_window_flights[key].add(acid) on the defaultdict(set) *)
add_flight(d, key, acid) ==
    OrderedPut(d, key, (IF HasKey(d, key) THEN Lookup(d, key) ELSE {}) \cup {acid})

(* lines 256-259: the bucket of a sample *)
sample_key(sample) ==
    << get_sector(sample.latitude, sample.longitude)[1],
       get_sector(sample.latitude, sample.longitude)[2],
       get_time_window(sample.timestamp) >>

(* line 265 *)
flight_count(flight_set) == Cardinality(flight_set)

(* a variant of line 267 with >= in place of > *)
is_hotspot_ge(flight_set) == flight_count(flight_set) >= CONGESTION_THRESHOLD

(* line 267 *)
is_hotspot(flight_set) == flight_count(flight_set) > CONGESTION_THRESHOLD

(* lines 263-274: the hotspots in the dict's iteration order, from item n on *)
RECURSIVE collect_hotspots(_, _)
collect_hotspots(d, n) ==
    IF n > Len(d) THEN <<>>
    ELSE (IF is_hotspot(d[n].val)
            THEN << [sector_lat |-> d[n].key[1], sector_lon |-> d[n].key[2],
                     window_start |-> d[n].key[3],
                     flight_count |-> flight_count(d[n].val),
                     flights |-> d[n].val] >>
            ELSE <<>>)
         \o collect_hotspots(d, n + 1)

(* line 277: the sort key, and the order Python puts on such tuples *)
hotspot_sort_key(h) == << h.window_start, h.sector_lat, h.sector_lon >>

TupleLess(a, b) ==
    \/ a[1] < b[1]
    \/ a[1] = b[1] /\ a[2] < b[2]
    \/ a[1] = b[1] /\ a[2] = b[2] /\ a[3] < b[3]

(* list.sort(key=...): stable, an element goes behind those not greater *)
RECURSIVE InsertSorted(_, _)
InsertSorted(sorted, h) ==
    IF sorted = <<>> THEN << h >>
    ELSE IF TupleLess(hotspot_sort_key(h), hotspot_sort_key(Head(sorted)))
      THEN << h >> \o sorted
      ELSE << Head(sorted) >> \o InsertSorted(Tail(sorted), h)

RECURSIVE SortFrom(_, _, _)
SortFrom(list, n, acc) ==
    IF n > Len(list) THEN acc
    ELSE SortFrom(list, n + 1, InsertSorted(acc, list[n]))

(* a variant that returns the list in the dict's iteration order *)
sort_hotspots_skipped(list) == list

(* line 277 *)
sort_hotspots(list) == SortFrom(list, 1, <<>>)

LosUnchanged ==
    UNCHANGED <<flight_trajectories, flight_objects, position_by_time, sorted_times,
                ti, i, j, active_conflicts, conflicts, status>>

(* lines 252-253: the next flight's samples; a flight without samples is done *)
StartFlight ==
    /\ pc = "flight"
    /\ k <= Len(flights)
    /\ samples' = estimate_trajectory(flights[k])
    /\ si' = 1
    /\ IF samples' = <<>>
         THEN k' = k + 1 /\ pc' = "flight"
         ELSE k' = k /\ pc' = "sample"
    /\ UNCHANGED <<flights, run, first, perm, sector_window_flights, hotspots>>
    /\ LosUnchanged /\ TrajUnchanged /\ ParseUnchanged

(* lines 255-260: one sample goes into its bucket; after the last one the
   outer loop moves to the next flight *)
AccumulateSample ==
    /\ pc = "sample"
    /\ si <= Len(samples)
    /\ sector_window_flights' =
         add_flight(sector_window_flights, sample_key(samples[si]), flights[k].acid)
    /\ IF si = Len(samples)
         THEN k' = k + 1 /\ pc' = "flight" /\ si' = si + 1
         ELSE k' = k /\ pc' = "sample" /\ si' = si + 1
    /\ UNCHANGED <<flights, run, first, perm, samples, hotspots>>
    /\ LosUnchanged /\ TrajUnchanged /\ ParseUnchanged

(* lines 263-279: collect the hotspots, sort them, return *)
FindHotspots ==
    /\ pc = "flight"
    /\ k > Len(flights)
    /\ hotspots' = sort_hotspots(collect_hotspots(sector_window_flights, 1))
    /\ pc' = "cong_done"
    /\ UNCHANGED <<flights, run, first, perm, k, samples, si, sector_window_flights>>
    /\ LosUnchanged /\ TrajUnchanged /\ ParseUnchanged

NextCong ==
    \/ StartFlight
    \/ AccumulateSample
    \/ FindHotspots

(* the list as it is (p = 0), reversed (1), with its first flight moved to the
   end (2), with its first two flights exchanged (3) *)
Reordered(list, p) ==
    [n \in DOMAIN list |->
        CASE p = 1 -> list[Len(list) + 1 - n]
          [] p = 2 -> list[(n % Len(list)) + 1]
          [] p = 3 /\ n <= 2 /\ Len(list) >= 2 -> list[3 - n]
          [] OTHER -> list[n]]

(* a second call of detect_congestion, on the same list or on a reordered one:
   line 249 makes its dict anew *)
CallCongAgain(p) ==
    /\ pc = "cong_done" /\ run = 1
    /\ first' = hotspots
    /\ run' = 2
    /\ perm' = p
    /\ flights' = Reordered(flights, p)
    /\ pc' = "flight"
    /\ k' = 1
    /\ samples' = <<>>
    /\ si' = 1
    /\ sector_window_flights' = <<>>
    /\ hotspots' = <<>>
    /\ LosUnchanged /\ TrajUnchanged /\ ParseUnchanged

NextCongAgain ==
    \/ NextCong
    \/ \E p \in 0..3 : CallCongAgain(p)

---------------------------------------------------------------------------
(* Inputs of the congestion runs *)

MaxCongFlights == 6

(* Flight plans around 49.5N 111W at 400 kt (100 units in 180 s, 3 samples):
   "east"  crosses the meridian 111W (lon -33300) eastwards, leaving at 0;
   "west"  flies the same leg westwards;
   "south" crosses the parallel 50N (lat 15000) southwards, leaving at 810, so
           that it also crosses the window boundary at 900. *)
CongPlans ==
    [ east |->
        [route |-> << Tok(14850, "N", 33350, "W"), Tok(14850, "N", 33250, "W") >>,
         departure_airport |-> "Unknown", arrival_airport |-> "Unknown",
         departure_time |-> 0, aircraft_speed |-> 400],
      west |->
        [route |-> << Tok(14850, "N", 33250, "W"), Tok(14850, "N", 33350, "W") >>,
         departure_airport |-> "Unknown", arrival_airport |-> "Unknown",
         departure_time |-> 0, aircraft_speed |-> 400],
      south |->
        [route |-> << Tok(15050, "N", 33250, "W"), Tok(14950, "N", 33250, "W") >>,
         departure_airport |-> "Unknown", arrival_airport |-> "Unknown",
         departure_time |-> 810, aircraft_speed |-> 400] ]

(* flights the list may end with: one that repeats the first flight's
   identifier, one that stays east of 111W for its two samples, one with
   speed 0, one whose route is a single waypoint *)
CongExtras ==
    { << >>,
      << MakeFlight(1, 30000, CongPlans["east"]) >>,
      << [MakeFlight(MaxCongFlights + 1, 30000, CongPlans["east"])
            EXCEPT !.route = << Tok(14850, "N", 33290, "W"),
                                Tok(14850, "N", 33250, "W") >>] >>,
      << [MakeFlight(MaxCongFlights + 1, 30000, CongPlans["east"])
            EXCEPT !.aircraft_speed = 0] >>,
      << [MakeFlight(MaxCongFlights + 1, 30000, CongPlans["east"])
            EXCEPT !.route = << Tok(14850, "N", 33350, "W") >>] >> }

CongInputs ==
    {[m \in 1..MaxCongFlights |-> MakeFlight(m, 30000, CongPlans[pl[m]])] \o extra :
        pl \in [1..MaxCongFlights -> DOMAIN CongPlans], extra \in CongExtras}

InitCong ==
    /\ flights \in CongInputs
    /\ pc = "flight"
    /\ run = 1
    /\ first = <<>>
    /\ perm = 0
    /\ IdleLos /\ IdleCong /\ IdleTraj /\ IdleParse

SpecCong == InitCong /\ [][NextCong]_vars

SpecCongAgain == InitCong /\ [][NextCongAgain]_vars

---------------------------------------------------------------------------
(* Properties of detect_loss_of_separation *)

(* the records naming the unordered pair {a, b} *)
RecordsOf(list, a, b) ==
    {n \in DOMAIN list : {list[n].flight1, list[n].flight2} = {a, b}}

(* the trajectory stored for identifier a, empty when there is none *)
TrajOf(a) ==
    IF a \in Keys(flight_trajectories) THEN Lookup(flight_trajectories, a)
    ELSE EmptyDict

(* the time buckets in which a and b both have a position, and those in which
   the two positions are less than 5.0 nm apart *)
SharedTimes(a, b) == (DOMAIN TrajOf(a)) \cap (DOMAIN TrajOf(b))

CloseTimes(a, b) ==
    {t \in SharedTimes(a, b) :
        horizontal_distance_nm(TrajOf(a)[t], TrajOf(b)[t]) < 5 * UnitsPerNm}

MinOf(S) == CHOOSE x \in S : \A y \in S : x <= y

(* no other flight of the list carries the identifier of flight m *)
AcidUnique(m) == \A q \in DOMAIN flights : q # m => flights[q].acid # flights[m].acid

(* no later flight of the list carries the identifier of flight m *)
IsLastWithAcid(m) == \A q \in DOMAIN flights : q > m => flights[q].acid # flights[m].acid

KnownApart(alt_a, alt_b) ==
    alt_a # None /\ alt_b # None /\ (alt_a - alt_b >= 2000 \/ alt_b - alt_a >= 2000)

(* C1: in one run every unordered flight pair is named by at most one
   ConflictRecord, at every point of the scan: a pair flagged in one time bucket
   is not reported again in a later one, also after separating and converging
   again. *)
C1_PairReportedAtMostOnce ==
    \A m, n \in DOMAIN conflicts :
        m # n => {conflicts[m].flight1, conflicts[m].flight2}
                 # {conflicts[n].flight1, conflicts[n].flight2}

(* a finished run in which a pair was close, then apart, then close again, and
   has its one record *)
C1_Witness ==
    /\ pc = "los_done" /\ status = "returned"
    /\ \E a, b \in Keys(flight_trajectories) :
         /\ a < b
         /\ Cardinality(RecordsOf(conflicts, a, b)) = 1
         /\ \E t1, t2, t3 \in SharedTimes(a, b) :
              /\ t1 < t2 /\ t2 < t3
              /\ t1 \in CloseTimes(a, b)
              /\ t2 \notin CloseTimes(a, b)
              /\ t3 \in CloseTimes(a, b)

(* C5: two flights whose altitudes are both known and 2000 ft or more apart never
   get a ConflictRecord, whatever their horizontal distance.  A record names
   identifiers; the flight of an identifier is the last flight of the list that
   carries it (line 205), which is the flight itself when identifiers are not
   repeated. *)
C5_NoRecordWhenVerticallySeparated ==
    \A m, n \in DOMAIN flights :
        ( /\ m # n /\ IsLastWithAcid(m) /\ IsLastWithAcid(n)
          /\ KnownApart(flights[m].altitude, flights[n].altitude) )
        => RecordsOf(conflicts, flights[m].acid, flights[n].acid) = {}

(* a run that returned with two such flights at the same position in a shared
   time bucket *)
C5_Witness ==
    /\ pc = "los_done" /\ status = "returned"
    /\ \E m, n \in DOMAIN flights :
         /\ m # n /\ AcidUnique(m) /\ AcidUnique(n)
         /\ KnownApart(flights[m].altitude, flights[n].altitude)
         /\ \E t \in SharedTimes(flights[m].acid, flights[n].acid) :
              TrajOf(flights[m].acid)[t] = TrajOf(flights[n].acid)[t]
         /\ RecordsOf(conflicts, flights[m].acid, flights[n].acid) = {}

(* C6: when the call ends, a pair that is not vertically separated has a
   ConflictRecord in the returned list if and only if some time bucket holds
   both flights less than 5.0 nm apart, and the record carries the earliest
   such bucket. *)
C6_RecordIffCloseInSharedBucket ==
    pc = "los_done" =>
      \A a, b \in DOMAIN flight_objects :
        ( /\ a < b
          /\ ~KnownApart(flight_objects[a].altitude, flight_objects[b].altitude) )
        => /\ (RecordsOf(los_result.conflicts, a, b) # {}) <=> (CloseTimes(a, b) # {})
           /\ \A n \in RecordsOf(los_result.conflicts, a, b) :
                /\ CloseTimes(a, b) # {}
                /\ los_result.conflicts[n].start_time_overlap
                     = MinOf(CloseTimes(a, b)) \div 60

(* C7: a pair with a missing altitude that comes within 5.0 nm in a shared time
   bucket is reported, and the call returns normally. *)
C7_MissingAltitudePairReported ==
    pc = "los_done" =>
      \A a, b \in DOMAIN flight_objects :
        ( /\ a < b
          /\ flight_objects[a].altitude = None \/ flight_objects[b].altitude = None
          /\ CloseTimes(a, b) # {} )
        => /\ status = "returned"
           /\ RecordsOf(los_result.conflicts, a, b) # {}

---------------------------------------------------------------------------
(* Properties of detect_congestion *)

BucketOfHotspot(h) == << h.sector_lat, h.sector_lon, h.window_start >>

(* the buckets the first n samples of a sample list fall into *)
BucketsOf(sample_list, n) == {sample_key(sample_list[q]) : q \in 1..n}

AllSamples(sample_list) == BucketsOf(sample_list, Len(sample_list))

(* the triples <<m, identifier, bucket>>: flight m, one of the first n of the
   list, has a sample in the bucket *)
Visits(n) ==
    UNION {{<< m, flights[m].acid, key >> :
               key \in AllSamples(estimate_trajectory(flights[m]))} :
           m \in 1..n}

(* the identifiers of the flights among the first n of the list that have at
   least one sample in the bucket *)
FlightsIn(visits, key, n) == {v[2] : v \in {w \in visits : w[3] = key /\ w[1] <= n}}

HotspotsOf(list, key) == {n \in DOMAIN list : BucketOfHotspot(list[n]) = key}

(* C2: the returned list holds exactly one Hotspot for a bucket whose number of
   distinct flights with a sample in it exceeds 5, carrying that number as its
   flight_count, and none for any other bucket. *)
C2_HotspotIffMoreThanFive ==
    pc = "cong_done" =>
      LET visits == Visits(Len(flights))
      IN  \A key \in {v[3] : v \in visits}
                       \cup {BucketOfHotspot(hotspots[n]) : n \in DOMAIN hotspots} :
            LET count == Cardinality(FlightsIn(visits, key, Len(flights)))
            IN  IF count > 5
                  THEN /\ Cardinality(HotspotsOf(hotspots, key)) = 1
                       /\ \A n \in HotspotsOf(hotspots, key) :
                            hotspots[n].flight_count = count
                  ELSE HotspotsOf(hotspots, key) = {}

(* a call returned a Hotspot of 6 flights and none for a bucket of 5 *)
C2_Witness ==
    /\ pc = "cong_done"
    /\ LET visits == Visits(Len(flights))
       IN  /\ \E n \in DOMAIN hotspots :
                /\ hotspots[n].flight_count = 6
                /\ Cardinality(FlightsIn(visits, BucketOfHotspot(hotspots[n]),
                                         Len(flights))) = 6
           /\ \E key \in {v[3] : v \in visits} :
                /\ Cardinality(FlightsIn(visits, key, Len(flights))) = 5
                /\ HotspotsOf(hotspots, key) = {}

(* the identifiers accumulation has put into the bucket so far: those of the
   flights already done, and the current flight's when one of its samples
   already handled falls into the bucket *)
Accumulated(visits, key) ==
    FlightsIn(visits, key, k - 1)
      \cup (IF pc = "sample" /\ key \in BucketsOf(samples, si - 1)
              THEN {flights[k].acid} ELSE {})

(* C3: at every step of a call the dict holds one entry per bucket reached so
   far, the entry is the set of identifiers of the flights with a sample in the
   bucket, and every Hotspot's flight_count is the size of its flights set. *)
C3_BucketHoldsDistinctFlights ==
    LET visits == Visits(k - 1)
    IN  /\ \A m, n \in DOMAIN sector_window_flights :
             m # n => sector_window_flights[m].key # sector_window_flights[n].key
        /\ \A n \in DOMAIN sector_window_flights :
             sector_window_flights[n].val
               = Accumulated(visits, sector_window_flights[n].key)
        /\ \A key \in {v[3] : v \in visits} \cup BucketsOf(samples, si - 1) :
             Accumulated(visits, key) # {} => HasKey(sector_window_flights, key)
        /\ \A n \in DOMAIN hotspots :
             /\ k = Len(flights) + 1
             /\ hotspots[n].flight_count = Cardinality(hotspots[n].flights)
             /\ hotspots[n].flights
                  = FlightsIn(visits, BucketOfHotspot(hotspots[n]), Len(flights))

(* a returned Hotspot of 6 flights, one of which has two samples in its bucket *)
C3_Witness ==
    /\ pc = "cong_done"
    /\ \E n \in DOMAIN hotspots :
         /\ hotspots[n].flight_count = 6
         /\ Cardinality(hotspots[n].flights) = 6
         /\ \E m \in DOMAIN flights :
              LET s == estimate_trajectory(flights[m])
              IN  \E q1, q2 \in DOMAIN s :
                    /\ q1 < q2
                    /\ sample_key(s[q1]) = BucketOfHotspot(hotspots[n])
                    /\ sample_key(s[q2]) = BucketOfHotspot(hotspots[n])

(* C4: the returned list ascends by (window start, sector latitude, sector
   longitude), and a second call on the same flights in another order returns
   the same list. *)
C4_SortedWhateverInputOrder ==
    /\ \A m, n \in DOMAIN hotspots :
         m < n => TupleLess(hotspot_sort_key(hotspots[m]), hotspot_sort_key(hotspots[n]))
    /\ (pc = "cong_done" /\ run = 2) => hotspots = first

(* a second call, on a reordered list, whose dict holds the hotspot buckets in
   another order than the sorted one, returned the first call's several
   Hotspots *)
C4_Witness ==
    /\ pc = "cong_done" /\ run = 2 /\ perm # 0
    /\ Len(hotspots) >= 2
    /\ hotspots = first
    /\ collect_hotspots(sector_window_flights, 1) # hotspots

---------------------------------------------------------------------------
(* Both detectors, each called twice on its list *)

InitDetect == InitLos \/ InitCong

NextDetect == NextLos \/ NextCong \/ CallCongAgain(0)

SpecDetect == InitDetect /\ [][NextDetect]_vars

(* what identifies a ConflictRecord and a Hotspot *)
ConflictIds(list) ==
    {<< list[n].flight1, list[n].flight2, list[n].start_time_overlap >> : n \in DOMAIN list}

HotspotIds(list) ==
    {<< BucketOfHotspot(list[n]), list[n].flights >> : n \in DOMAIN list}

(* C9: a second call of either detector on the same list ends as the first did
   and returns the same ConflictRecords (pair and first-detection bucket), the
   same Hotspots (bucket and flight set). *)
C9_SecondRunSameResult ==
    /\ (pc = "los_done" /\ run = 2) =>
         /\ los_result.status = first.status
         /\ ConflictIds(los_result.conflicts) = ConflictIds(first.conflicts)
         /\ Len(los_result.conflicts) = Len(first.conflicts)
    /\ (pc = "cong_done" /\ run = 2 /\ perm = 0) =>
         /\ HotspotIds(hotspots) = HotspotIds(first)
         /\ Len(hotspots) = Len(first)

(* a second call of detect_loss_of_separation returned the first call's
   records, of which there are some *)
C9_Witness ==
    /\ pc = "los_done" /\ run = 2 /\ status = "returned"
    /\ conflicts # <<>>
    /\ ConflictIds(conflicts) = ConflictIds(first.conflicts)

---------------------------------------------------------------------------
(* The two trajectory reconstructors applied to one flight *)

(* lines 208-209 of flight_analysis.py and line 253 of airspace_congestion.py *)
Reconstruct ==
    /\ pc = "reconstruct"
    /\ trajectory' = generate_4d_trajectory(flights[1], get_full_flight_path(flights[1]))
    /\ samples' = estimate_trajectory(flights[1])
    /\ pc' = "traj_done"
    /\ UNCHANGED <<flights, run, first, perm, k, si, sector_window_flights, hotspots>>
    /\ LosUnchanged /\ ParseUnchanged /\ BuildUnchanged

NextTraj == Reconstruct

(* Flights around Toronto: routes of no, one, two or three waypoints, with and
   without a repeated waypoint; with and without the airports; leaving at 0, on
   a minute and within a minute; speed negative, zero, slow and fast.  Numeric
   fields are numbers, as the loader makes them (flight_loader.py, lines 37-41). *)
TrajWaypointA == Tok(13104, "N", 23874, "W")
TrajWaypointB == Tok(13104, "N", 23859, "W")

TrajRoutes ==
    { << >>, << TrajWaypointA >>, << TrajWaypointA, TrajWaypointA >>,
      << TrajWaypointA, TrajWaypointB >>,
      << TrajWaypointA, TrajWaypointA, TrajWaypointB >>,
      << TrajWaypointA, TrajWaypointB, TrajWaypointB >> }

TrajInputs ==
    {[acid |-> 1, altitude |-> 30000, route |-> r,
      departure_airport |-> da, arrival_airport |-> aa,
      departure_time |-> dt, aircraft_speed |-> sp] :
        r \in TrajRoutes, da \in {"Unknown", "CYYZ"}, aa \in {"Unknown", "CYYZ"},
        dt \in {0, 60, 125}, sp \in {-400, 0, 60, 400}}

InitTraj ==
    /\ flights \in {<< f >> : f \in TrajInputs}
    /\ pc = "reconstruct"
    /\ run = 1
    /\ first = <<>>
    /\ perm = 0
    /\ IdleLos /\ IdleCong /\ IdleTraj /\ IdleParse

SpecTraj == InitTraj /\ [][NextTraj]_vars

(* a point sequence has a segment of non-zero length *)
HasMovingSegment(points) == \E n \in 1..(Len(points) - 1) : points[n] # points[n + 1]

(* C8, as stated: empty for fewer than 2 points or a speed not above 0,
   non-empty for every path of 2 or more points with a segment of non-zero
   length, every departure timestamp and every speed above 0; empty only for
   a speed not above 0 or fewer than 2 points. *)
C8_EmptyOnlyForSpeedOrShortPath ==
    pc = "traj_done" =>
      LET f == flights[1]
          path == get_full_flight_path(f)
          wps == ac_parse_route(f.route)
      IN  /\ (Len(path) < 2 \/ f.aircraft_speed <= 0) => trajectory = EmptyDict
          /\ (Len(wps) < 2 \/ f.aircraft_speed <= 0) => samples = <<>>
          /\ (Len(path) >= 2 /\ HasMovingSegment(path) /\ f.aircraft_speed > 0)
               => trajectory # EmptyDict
          /\ (Len(wps) >= 2 /\ HasMovingSegment(wps) /\ f.aircraft_speed > 0)
               => samples # <<>>
          /\ trajectory = EmptyDict => (Len(path) < 2 \/ f.aircraft_speed <= 0)
          /\ samples = <<>> => (Len(wps) < 2 \/ f.aircraft_speed <= 0)

(* C8, amended: generate_4d_trajectory returns an empty Trajectory exactly when
   the departure time is 0, the speed is not above 0, or the Path has fewer than
   2 points or no segment of non-zero length; estimate_trajectory exactly when
   the speed is not above 0 or the route has fewer than 2 waypoints or no segment
   of non-zero length.  A non-empty result begins in the departure time's bucket
   (at the departure time), and the samples of estimate_trajectory end at the
   end of the last segment of non-zero length. *)
C8_EmptyTrajectoryExactlyWhen ==
    pc = "traj_done" =>
      LET f == flights[1]
          path == get_full_flight_path(f)
          wps == ac_parse_route(f.route)
      IN  /\ trajectory = EmptyDict
               <=> \/ f.departure_time = 0
                   \/ f.aircraft_speed <= 0
                   \/ Len(path) < 2
                   \/ ~HasMovingSegment(path)
          /\ samples = <<>>
               <=> \/ f.aircraft_speed <= 0
                   \/ Len(wps) < 2
                   \/ ~HasMovingSegment(wps)
          /\ trajectory # EmptyDict =>
               /\ (f.departure_time \div 60) * 60 \in DOMAIN trajectory
               /\ \A t \in DOMAIN trajectory : t >= (f.departure_time \div 60) * 60
          /\ samples # <<>> =>
               /\ samples[1].timestamp = f.departure_time
               /\ \E n \in 1..(Len(wps) - 1) :
                    /\ wps[n] # wps[n + 1]
                    /\ \A q \in (n + 1)..(Len(wps) - 1) : wps[q] = wps[q + 1]
                    /\ << samples[Len(samples)].latitude,
                          samples[Len(samples)].longitude >> = wps[n + 1]

(* a flight leaving at 0 with a speed above 0 along a path with a segment of
   non-zero length: no Trajectory from generate_4d_trajectory, samples from
   estimate_trajectory *)
C8_Witness ==
    /\ pc = "traj_done"
    /\ flights[1].departure_time = 0
    /\ flights[1].aircraft_speed > 0
    /\ HasMovingSegment(get_full_flight_path(flights[1]))
    /\ HasMovingSegment(ac_parse_route(flights[1].route))
    /\ trajectory = EmptyDict
    /\ samples # <<>>

---------------------------------------------------------------------------
(* The two route parsers applied to one route string *)

(* one iteration of the `for part in parts` loop of each parser *)
ParsePart ==
    /\ pc = "parse"
    /\ pidx <= Len(parts)
    /\ coordinates' = fa_parse_part(coordinates, parts[pidx])
    /\ waypoints' = ac_parse_part(waypoints, parts[pidx])
    /\ pidx' = pidx + 1
    /\ UNCHANGED <<flights, pc, run, first, perm, k, parts>>
    /\ LosUnchanged /\ CongUnchanged /\ TrajUnchanged

(* the loops are at their end: both parsers return *)
ReturnCoordinates ==
    /\ pc = "parse"
    /\ pidx > Len(parts)
    /\ pc' = "parse_done"
    /\ UNCHANGED <<flights, run, first, perm, k>>
    /\ LosUnchanged /\ CongUnchanged /\ TrajUnchanged /\ ParseUnchanged

NextParse == ParsePart \/ ReturnCoordinates

MaxRouteParts == 2

(* Tokens "50.12?/111.2?" with every pairing of these last characters, and three
   that are skipped: one without a '/', one for each numeric part that fails *)
RouteTokens ==
    {Tok(15036, ls, 33360, os) :
        ls \in {"N", "S", "W", "s", "w", "X"}, os \in {"E", "W", "S", "w", "s", "7"}}
    \cup {[Tok(15036, "N", 33360, "W") EXCEPT !.has_slash = FALSE],
          [Tok(15036, "N", 33360, "W") EXCEPT !.lat_ok = FALSE],
          [Tok(15036, "N", 33360, "W") EXCEPT !.lon_ok = FALSE]}

InitParse ==
    /\ parts \in UNION {[1..n -> RouteTokens] : n \in 0..MaxRouteParts}
    /\ pc = "parse"
    /\ pidx = 1
    /\ coordinates = <<>>
    /\ waypoints = <<>>
    /\ flights = <<>>
    /\ run = 1
    /\ first = <<>>
    /\ perm = 0
    /\ IdleLos /\ IdleCong /\ IdleTraj

SpecParse == InitParse /\ [][NextParse]_vars

(* the tokens of a route that have a '/' and two numeric parts that parse *)
RECURSIVE ParsedTokens(_)
ParsedTokens(route) ==
    IF route = <<>> THEN <<>>
    ELSE (IF Head(route).has_slash /\ Head(route).lat_ok /\ Head(route).lon_ok
            THEN << Head(route) >> ELSE <<>>)
         \o ParsedTokens(Tail(route))

(* C10: both parsers give a token's latitude a negative sign only for the
   suffix S and its longitude a negative sign only for the suffix W, in either
   case of the letter; any other last character leaves them positive. *)
C10_SignOnlyFromOwnSuffix ==
    pc = "parse_done" =>
      LET tokens == ParsedTokens(parts)
          SignedAsClaimed(list) ==
            /\ Len(list) = Len(tokens)
            /\ \A n \in DOMAIN list :
                 /\ list[n][1] < 0 <=> tokens[n].lat_suf \in {"S", "s"}
                 /\ list[n][2] < 0 <=> tokens[n].lon_suf \in {"W", "w"}
      IN  SignedAsClaimed(coordinates) /\ SignedAsClaimed(waypoints)

---------------------------------------------------------------------------
(* Order of the ConflictRecords *)

(* C11: at every step of a call the ConflictRecord list is ordered by time
   bucket: a record earlier in the list has a bucket less than or equal to that
   of every later one, whatever the order of the flights in the list. *)
C11_RecordsOrderedByBucket ==
    \A m, n \in DOMAIN conflicts :
        m < n => conflicts[m].start_time_overlap <= conflicts[n].start_time_overlap

(* a returned list whose records carry different buckets, the earlier bucket
   belonging to a pair that comes later in the flight list than the pair of
   the later one *)
C11_Witness ==
    /\ pc = "los_done" /\ status = "returned"
    /\ \E m, n \in DOMAIN conflicts :
         /\ m < n
         /\ conflicts[m].start_time_overlap < conflicts[n].start_time_overlap
         /\ \A a \in {conflicts[m].flight1, conflicts[m].flight2},
               b \in {conflicts[n].flight1, conflicts[n].flight2} : a >= b
         /\ {conflicts[m].flight1, conflicts[m].flight2}
              # {conflicts[n].flight1, conflicts[n].flight2}

---------------------------------------------------------------------------
(* The two reconstructors, statement by statement: generate_4d_trajectory on
   the flight's path, then estimate_trajectory on the same flight *)

(* what the build leaves alone *)
BuildFrame ==
    /\ UNCHANGED <<flights, run, first, perm, k, si, sector_window_flights, hotspots,
                   parts, pidx, coordinates>>
    /\ LosUnchanged
    /\ InterpUnchanged

(* the flight and the length of the current segment *)
build_flight == flights[1]

fa_dist_units == horizontal_distance_nm(fa_path[seg_i], fa_path[seg_i + 1])

ac_dist_units ==
    haversine_distance(waypoints[seg_i][1], waypoints[seg_i][2],
                       waypoints[seg_i + 1][1], waypoints[seg_i + 1][2])

(* lines 152-159: the early returns of generate_4d_trajectory, or the loop begins *)
FaEnter ==
    /\ pc = "fa_entry"
    /\ trajectory' = EmptyDict
    /\ IF \/ Falsy(build_flight.departure_time)
          \/ Falsy(build_flight.aircraft_speed)
          \/ build_flight.aircraft_speed <= 0
          \/ get_full_flight_path(build_flight) = <<>>
         THEN pc' = "ac_entry" /\ UNCHANGED fa_path
         ELSE pc' = "fa_segment" /\ fa_path' = get_full_flight_path(build_flight)
    /\ seg_i' = 1
    /\ flown_units' = 0
    /\ UNCHANGED <<samples, waypoints, step_s, seg_steps, ac_time, generated>>
    /\ BuildFrame

(* lines 162-171: the next segment; one of length 0 is passed over *)
FaSegment ==
    /\ pc = "fa_segment"
    /\ seg_i <= Len(fa_path) - 1
    /\ IF fa_dist_units = 0
         THEN seg_i' = seg_i + 1 /\ pc' = "fa_segment" /\ UNCHANGED <<seg_steps, step_s>>
         ELSE /\ seg_steps' = fa_steps(fa_dist_units, build_flight.aircraft_speed)
              /\ step_s' = 0
              /\ pc' = "fa_step"
              /\ UNCHANGED seg_i
    /\ UNCHANGED <<trajectory, samples, waypoints, fa_path, flown_units, ac_time,
                   generated>>
    /\ BuildFrame

(* lines 173-186: one sample of the segment is made and stored *)
FaStep ==
    /\ pc = "fa_step"
    /\ step_s <= seg_steps
    /\ LET speed == build_flight.aircraft_speed
           num == step_s * TIME_STEP_SEC * speed * UnitsPerNm
           den == fa_dist_units * SEC_PER_HOUR
           clamped == num > den
           pos == IF clamped
                    THEN interpolate_position(fa_path[seg_i], fa_path[seg_i + 1], 1, 1)
                    ELSE interpolate_position(fa_path[seg_i], fa_path[seg_i + 1], num, den)
           t_stamp == build_flight.departure_time
                      + (flown_units * SEC_PER_HOUR) \div (speed * UnitsPerNm)
                      + step_s * TIME_STEP_SEC
           t_minute == (t_stamp \div 60) * 60
       IN /\ trajectory' = store_position(trajectory, t_minute, pos)
          /\ generated' = Append(generated,
               [by |-> "fa", seg |-> seg_i, s |-> step_s,
                num |-> IF clamped THEN 1 ELSE num, den |-> IF clamped THEN 1 ELSE den,
                t_stamp |-> t_stamp, key |-> t_minute, pos |-> pos])
    /\ step_s' = step_s + 1
    /\ UNCHANGED <<pc, samples, waypoints, fa_path, seg_i, seg_steps, flown_units, ac_time>>
    /\ BuildFrame

(* line 188: current_time += duration_sec, and the outer loop goes on *)
FaEndSegment ==
    /\ pc = "fa_step"
    /\ step_s > seg_steps
    /\ flown_units' = flown_units + fa_dist_units
    /\ seg_i' = seg_i + 1
    /\ pc' = "fa_segment"
    /\ UNCHANGED <<trajectory, samples, waypoints, fa_path, step_s, seg_steps, ac_time,
                   generated>>
    /\ BuildFrame

(* line 190: return trajectory *)
FaReturn ==
    /\ pc = "fa_segment"
    /\ seg_i > Len(fa_path) - 1
    /\ pc' = "ac_entry"
    /\ UNCHANGED <<trajectory, samples, waypoints, fa_path, seg_i, step_s, seg_steps,
                   flown_units, ac_time, generated>>
    /\ BuildFrame

(* lines 139-154 of airspace_congestion.py: the early returns of
   estimate_trajectory, or the loop begins *)
AcEnter ==
    /\ pc = "ac_entry"
    /\ waypoints' = ac_parse_route(build_flight.route)
    /\ samples' = <<>>
    /\ ac_time' = build_flight.departure_time
    /\ seg_i' = 1
    /\ IF Len(waypoints') < 2 \/ build_flight.aircraft_speed <= 0
         THEN pc' = "build_done"
         ELSE pc' = "ac_segment"
    /\ UNCHANGED <<trajectory, fa_path, step_s, seg_steps, flown_units, generated>>
    /\ BuildFrame

(* lines 157-171: the next segment; one that takes no time is passed over *)
AcSegment ==
    /\ pc = "ac_segment"
    /\ seg_i <= Len(waypoints) - 1
    /\ IF ac_dist_units <= 0
         THEN seg_i' = seg_i + 1 /\ pc' = "ac_segment" /\ UNCHANGED <<seg_steps, step_s>>
         ELSE /\ seg_steps' = ac_num_samples(ac_dist_units, build_flight.aircraft_speed)
              /\ step_s' = 0
              /\ pc' = "ac_sample"
              /\ UNCHANGED seg_i
    /\ UNCHANGED <<trajectory, samples, waypoints, fa_path, flown_units, ac_time,
                   generated>>
    /\ BuildFrame

(* lines 173-189: one sample of the segment is appended *)
AcSample ==
    /\ pc = "ac_sample"
    /\ step_s <= seg_steps
    /\ LET speed == build_flight.aircraft_speed
           pos == interpolate_position(waypoints[seg_i], waypoints[seg_i + 1],
                                       step_s, seg_steps)
           sample_time == ac_time
                          + (step_s * ac_dist_units * SEC_PER_HOUR)
                            \div (seg_steps * speed * UnitsPerNm)
       IN /\ samples' = Append(samples,
               [timestamp |-> sample_time, latitude |-> pos[1],
                longitude |-> pos[2], acid |-> build_flight.acid])
          /\ generated' = Append(generated,
               [by |-> "ac", seg |-> seg_i, s |-> step_s,
                num |-> step_s, den |-> seg_steps,
                t_stamp |-> sample_time, key |-> sample_time, pos |-> pos])
    /\ step_s' = step_s + 1
    /\ UNCHANGED <<pc, trajectory, waypoints, fa_path, seg_i, seg_steps, flown_units,
                   ac_time>>
    /\ BuildFrame

(* line 192: current_time += int(time_for_segment), and the outer loop goes on *)
AcEndSegment ==
    /\ pc = "ac_sample"
    /\ step_s > seg_steps
    /\ ac_time' = ac_time + (ac_dist_units * SEC_PER_HOUR)
                            \div (build_flight.aircraft_speed * UnitsPerNm)
    /\ seg_i' = seg_i + 1
    /\ pc' = "ac_segment"
    /\ UNCHANGED <<trajectory, samples, waypoints, fa_path, step_s, seg_steps,
                   flown_units, generated>>
    /\ BuildFrame

(* line 195: return samples *)
AcReturn ==
    /\ pc = "ac_segment"
    /\ seg_i > Len(waypoints) - 1
    /\ pc' = "build_done"
    /\ UNCHANGED <<trajectory, samples, waypoints, fa_path, seg_i, step_s, seg_steps,
                   flown_units, ac_time, generated>>
    /\ BuildFrame

NextBuild ==
    \/ FaEnter
    \/ FaSegment
    \/ FaStep
    \/ FaEndSegment
    \/ FaReturn
    \/ AcEnter
    \/ AcSegment
    \/ AcSample
    \/ AcEndSegment
    \/ AcReturn

InitBuild ==
    /\ flights \in {<< f >> : f \in TrajInputs}
    /\ pc = "fa_entry"
    /\ run = 1
    /\ first = <<>>
    /\ perm = 0
    /\ IdleLos /\ IdleCong /\ IdleTraj /\ IdleParse

SpecBuild == InitBuild /\ [][NextBuild]_vars

---------------------------------------------------------------------------
(* Properties of the reconstructors' loops *)

(* the samples one reconstructor made for its segment n, in the order made *)
SamplesOfSegment(by, n) ==
    SelectSeq(generated, LAMBDA g : g.by = by /\ g.seg = n)

RECURSIVE UnitsBefore(_, _)
(* the length of the path before its segment n *)
UnitsBefore(points, n) ==
    IF n <= 1 THEN 0
    ELSE UnitsBefore(points, n - 1) + horizontal_distance_nm(points[n - 1], points[n])

RECURSIVE WholeSecondsBefore(_, _, _)
(* the whole seconds of the segments before segment n, each rounded down *)
WholeSecondsBefore(points, speed, n) ==
    IF n <= 1 THEN 0
    ELSE WholeSecondsBefore(points, speed, n - 1)
         + (horizontal_distance_nm(points[n - 1], points[n]) * SEC_PER_HOUR)
           \div (speed * UnitsPerNm)

(* the time at which a reconstructor reaches segment n of its path *)
SegmentStartTime(by, points, n) ==
    IF by = "fa"
      THEN build_flight.departure_time
           + (UnitsBefore(points, n) * SEC_PER_HOUR)
             \div (build_flight.aircraft_speed * UnitsPerNm)
      ELSE build_flight.departure_time
           + WholeSecondsBefore(points, build_flight.aircraft_speed, n)

(* what the claim says of segment n: max(1, floor(duration / cadence)) steps and
   a sample for each of 0..steps when the duration is positive, none otherwise *)
SegmentSampledAsSpecified(by, points, cadence, n) ==
    LET dist == horizontal_distance_nm(points[n], points[n + 1])
        speed == build_flight.aircraft_speed
        log == SamplesOfSegment(by, n)
    IN IF speed > 0 /\ dist > 0
         THEN /\ Len(log) = Max2(1, (dist * SEC_PER_HOUR) \div (speed * UnitsPerNm * cadence)) + 1
              /\ Len(log) >= 2
              /\ \A x \in DOMAIN log : log[x].s = x - 1
              /\ log[1].pos = points[n]
              /\ log[1].t_stamp = SegmentStartTime(by, points, n)
              /\ log[Len(log)].num <= log[Len(log)].den
         ELSE log = << >>

(* C12: when both reconstructors have returned, every segment of positive
   duration of either path has max(1, floor(duration / cadence)) + 1 samples,
   numbered 0..steps, hence at least two, the first at the segment's start
   point and start time and the last with a fraction of at most 1; a segment
   of duration <= 0 has none.  The code of generate_4d_trajectory takes
   int(duration / 60) steps with no lower limit of 1, so a segment shorter
   than a minute gets one sample only. *)
C12_EverySegmentAtLeastTwoSamples ==
    pc = "build_done" =>
        /\ \A n \in 1..(Len(fa_path) - 1) :
               SegmentSampledAsSpecified("fa", fa_path, TIME_STEP_SEC, n)
        /\ \A n \in 1..(Len(waypoints) - 1) :
               SegmentSampledAsSpecified("ac", waypoints, SAMPLE_INTERVAL, n)

(* the part of C12 that is about estimate_trajectory alone *)
AcSegmentsSampledAsSpecified ==
    pc = "build_done" =>
        \A n \in 1..(Len(waypoints) - 1) :
            SegmentSampledAsSpecified("ac", waypoints, SAMPLE_INTERVAL, n)

(* the samples generate_4d_trajectory has made so far, in the order made *)
FaGenerated == SelectSeq(generated, LAMBDA g : g.by = "fa")

(* the last sample made so far for a key *)
LastGeneratedAt(key) ==
    LET log == FaGenerated
        last == CHOOSE x \in DOMAIN log :
                    /\ log[x].key = key
                    /\ \A y \in DOMAIN log : log[y].key = key => y <= x
    IN log[last]

(* C13: at every step of the building of a flight's Trajectory, the keys were
   generated in non-decreasing order, within a segment and from one segment to
   the next; every key is its sample's time rounded down to a multiple of 60
   seconds; and the Trajectory holds exactly one position for each generated
   key, that of the sample generated last for it. *)
C13_KeysNonDecreasingLastSampleWins ==
    LET log == FaGenerated
    IN /\ \A x, y \in DOMAIN log : x < y => log[x].key <= log[y].key
       /\ \A x \in DOMAIN log :
              /\ log[x].key % 60 = 0
              /\ log[x].key <= log[x].t_stamp
              /\ log[x].t_stamp < log[x].key + 60
       /\ DOMAIN trajectory = {log[x].key : x \in DOMAIN log}
       /\ \A key \in DOMAIN trajectory : trajectory[key] = LastGeneratedAt(key).pos

(* two samples of different segments fell on one key with different positions,
   the later one is stored, and generate_4d_trajectory has returned *)
C13_Witness ==
    /\ pc = "build_done"
    /\ \E x, y \in DOMAIN FaGenerated :
         /\ x < y
         /\ FaGenerated[x].seg < FaGenerated[y].seg
         /\ FaGenerated[x].key = FaGenerated[y].key
         /\ FaGenerated[x].pos # FaGenerated[y].pos
         /\ trajectory[FaGenerated[y].key] = FaGenerated[y].pos

---------------------------------------------------------------------------
(* interpolate_position called on its own *)

(* lines 140-144: the call returns *)
Interpolate ==
    /\ pc = "interp"
    /\ interp_pos' = interpolate_position(interp_p1, interp_p2,
                                          interp_fraction[1], interp_fraction[2])
    /\ pc' = "interp_done"
    /\ UNCHANGED <<interp_p1, interp_p2, interp_fraction>>
    /\ UNCHANGED <<flights, run, first, perm, k, trajectory, fa_path, seg_i, step_s,
                   seg_steps, flown_units, ac_time, generated>>
    /\ LosUnchanged /\ CongUnchanged /\ ParseUnchanged

NextInterp == Interpolate

(* the points and the fractions the function is called with: the fractions
   -1/2, 0, 1/3, 1/2, 1, 3/2 and 2 *)
InterpPoints == {<<13104, -23889>>, <<13104, -23874>>, <<13129, -23889>>,
                 <<13154, -23859>>, <<-30, 40>>}

InterpFractions == {<<-1, 2>>, <<0, 1>>, <<1, 3>>, <<1, 2>>, <<1, 1>>, <<3, 2>>, <<2, 1>>}

InitInterp ==
    /\ interp_p1 \in InterpPoints
    /\ interp_p2 \in InterpPoints
    /\ interp_fraction \in InterpFractions
    /\ interp_pos = <<0, 0>>
    /\ pc = "interp"
    /\ flights = <<>>
    /\ run = 1
    /\ first = <<>>
    /\ perm = 0
    /\ trajectory = EmptyDict
    /\ IdleLos /\ IdleCong /\ IdleBuild /\ IdleParse

SpecInterp == InitInterp /\ [][NextInterp]_vars

(* whether x lies between u and v *)
Between(x, u, v) == (u <= x /\ x <= v) \/ (v <= x /\ x <= u)

(* C14: interpolate_position returns p1 for fraction 0 and p2 for fraction 1,
   returns p1 for every fraction below 0 and p2 for every fraction above 1,
   and never returns a point outside the segment from p1 to p2.  The code does
   not clamp the fraction, so outside [0, 1] it extrapolates. *)
C14_InterpolationClampedToSegment ==
    pc = "interp_done" =>
        LET num == interp_fraction[1]
            den == interp_fraction[2]
        IN /\ num = 0 => interp_pos = interp_p1
           /\ num = den => interp_pos = interp_p2
           /\ num < 0 => interp_pos = interp_p1
           /\ num > den => interp_pos = interp_p2
           /\ Between(interp_pos[1], interp_p1[1], interp_p2[1])
           /\ Between(interp_pos[2], interp_p1[2], interp_p2[2])

(* what does hold: for a fraction within [0, 1] the result is on the segment,
   p1 at fraction 0 and p2 at fraction 1 *)
InterpolationWithinUnitInterval ==
    pc = "interp_done" /\ 0 <= interp_fraction[1] /\ interp_fraction[1] <= interp_fraction[2] =>
        /\ interp_fraction[1] = 0 => interp_pos = interp_p1
        /\ interp_fraction[1] = interp_fraction[2] => interp_pos = interp_p2
        /\ Between(interp_pos[1], interp_p1[1], interp_p2[1])
        /\ Between(interp_pos[2], interp_p1[2], interp_p2[2])

---------------------------------------------------------------------------
(* One entry per flight identifier in a bucket of the inverted index *)

(* C15: at every step of a call, whatever the input list, also one that
   repeats an identifier: no bucket of the inverted index holds an identifier
   twice, and no ConflictRecord has the same identifier as flight1 and as
   flight2. *)
C15_NoFlightPairedWithItself ==
    /\ \A t \in DOMAIN position_by_time :
           \A m, n \in DOMAIN position_by_time[t] :
               m # n => position_by_time[t][m][1] # position_by_time[t][n][1]
    /\ \A n \in DOMAIN conflicts : conflicts[n].flight1 # conflicts[n].flight2

(* a call has returned on a list in which two flights with a trajectory each
   share an identifier, that identifier is in a bucket with another one and in
   a ConflictRecord *)
C15_Witness ==
    /\ pc = "los_done" /\ status = "returned"
    /\ \E m, n \in DOMAIN flights :
         /\ m < n
         /\ flights[m].acid = flights[n].acid
         /\ generate_4d_trajectory(flights[m], get_full_flight_path(flights[m])) # EmptyDict
         /\ generate_4d_trajectory(flights[n], get_full_flight_path(flights[n])) # EmptyDict
         /\ \E t \in DOMAIN position_by_time :
              /\ Len(position_by_time[t]) >= 2
              /\ \E e \in DOMAIN position_by_time[t] :
                   position_by_time[t][e][1] = flights[m].acid
         /\ \E c \in DOMAIN conflicts :
              flights[m].acid \in {conflicts[c].flight1, conflicts[c].flight2}

=============================================================================
